---------------------------- MODULE Spec2Model ----------------------------
(***************************************************************************)
(* Model of app.py: the load-time feature derivation of the passenger      *)
(* table (module level, lines 10-47) and the two chart-producing           *)
(* operations create_overview_dashboard and create_interactive_scatter,    *)
(* invoked by the click handler load_visualizations.                       *)
(*                                                                         *)
(* Numbers.  Age is held in half years and Fare in eighths of a pound, so  *)
(* that the medians (a mean of two values) and the quartile edges (linear  *)
(* interpolation at multiples of 1/4) pandas computes are exact integers.  *)
(* Percentages are exact rationals [num, den] in lowest terms; the         *)
(* rounding of binary floating point is not modelled.                      *)
(***************************************************************************)
EXTENDS Integers, Sequences, FiniteSets, TLC

\* Largest number of rows of the input table.
MaxRows == 3

\* Missing value of a numeric column (float NaN) and of an object column.
NaN == 0 - 1
NA == "NaN"

Years(n) == 2 * n
Pounds(n) == 8 * n

Min(a, b) == IF a <= b THEN a ELSE b

RECURSIVE GCD(_, _)
GCD(a, b) == IF b = 0 THEN a ELSE GCD(b, a % b)

\* The rational n/d (n >= 0, d > 0) in lowest terms.
Rat(n, d) == LET g == GCD(n, d) IN [num |-> n \div g, den |-> d \div g]

\* round(x, 1) and format(x, '.1f') of x = n/d, in tenths, ties to even.
Round1(n, d) ==
    LET q == (10 * n) \div d
        r == (10 * n) % d
    IN  IF 2 * r < d THEN q
        ELSE IF 2 * r > d THEN q + 1
        ELSE IF q % 2 = 0 THEN q ELSE q + 1

Range(s) == {s[i] : i \in DOMAIN s}

Column(d, col) == [i \in DOMAIN d |-> d[i][col]]

\* Series.dropna() of a numeric column.
DropNa(s) == SelectSeq(s, LAMBDA v : v # NaN)

RECURSIVE Insert(_, _)
Insert(v, s) ==
    IF s = <<>> THEN <<v>>
    ELSE IF v <= Head(s) THEN <<v>> \o s
    ELSE <<Head(s)>> \o Insert(v, Tail(s))

RECURSIVE Sort(_)
Sort(s) == IF s = <<>> THEN <<>> ELSE Insert(Head(s), Sort(Tail(s)))

RECURSIVE Sum(_)
Sum(s) == IF s = <<>> THEN 0 ELSE Head(s) + Sum(Tail(s))

\* Series.median(): missing values are skipped; NaN when nothing is left.
Median(s) ==
    LET v == Sort(DropNa(s))
        n == Len(v)
    IN  IF n = 0 THEN NaN
        ELSE IF n % 2 = 1 THEN v[(n + 1) \div 2]
        ELSE (v[n \div 2] + v[n \div 2 + 1]) \div 2

\* Series.fillna(value): every missing entry becomes value (a NaN value
\* leaves the column as it is).
FillNa(s, value, null) == [i \in DOMAIN s |-> IF s[i] = null THEN value ELSE s[i]]

\* df[col].fillna(value, inplace=True), lines 21, 25, 28: the fill is applied
\* to the Series df[col] returns.  It reaches df when that Series is a view
\* of df's column (pandas 2 default); with copy-on-write (pandas 2 option,
\* pandas 3 always) the Series is a copy and df is left as it was.
FillNaInplace(cow, s, value, null) == IF cow THEN s ELSE FillNa(s, value, null)

SetColumn(d, col, s) ==
    [i \in DOMAIN d |-> [f \in (DOMAIN d[i]) \cup {col} |->
                            IF f = col THEN s[i] ELSE d[i][f]]]

\* Series.map(dict): a value that is no key of the dict maps to NaN.
MapValue(m, v) == IF v \in DOMAIN m THEN m[v] ELSE NA

Sex_Numeric == [female |-> 0, male |-> 1]

AgeBins == <<Years(0), Years(12), Years(18), Years(35), Years(50), Years(100)>>

AgeLabels ==
    <<"Child (0-12)", "Teen (13-18)", "Adult (19-35)", "Middle Age (36-50)",
      "Senior (50+)">>

FareLabels == <<"Low", "Medium-Low", "Medium-High", "High">>

\* bins.searchsorted(x, side='left'): the number of edges below x.
SearchSortedLeft(bins, x) == Cardinality({i \in DOMAIN bins : bins[i] < x})

\* algos.unique(bins): first occurrences in order.
RECURSIVE Unique(_)
Unique(s) ==
    IF s = <<>> THEN <<>>
    ELSE LET u == Unique(SubSeq(s, 1, Len(s) - 1))
             v == s[Len(s)]
         IN  IF v \in Range(u) THEN u ELSE Append(u, v)

\* _bins_to_cuts: right-closed intervals; ids 0 and len(bins) are outside
\* every bin; include_lowest moves x = bins[0] into the first bin.  With
\* duplicates='drop' repeated edges are dropped, and the labels must then
\* still be one fewer than the edges, else ValueError.
BinsToCuts(x, bins, labels, include_lowest) ==
    LET dropped == IF Len(Unique(bins)) < Len(bins) /\ Len(bins) # 2
                   THEN Unique(bins) ELSE bins
        id(v) == IF include_lowest /\ v = dropped[1] THEN 1
                 ELSE SearchSortedLeft(dropped, v)
        isna(v) == v = NaN \/ id(v) = Len(dropped) \/ id(v) = 0
    IN  IF Len(labels) # Len(dropped) - 1
        THEN [raised |-> TRUE, values |-> <<>>]
        ELSE [raised |-> FALSE,
              values |-> [i \in DOMAIN x |->
                            IF isna(x[i]) THEN NA ELSE labels[id(x[i])]]]

\* pd.cut(x, bins=[...], labels=[...]): right=True, include_lowest=False.
Cut(x, bins, labels) == BinsToCuts(x, bins, labels, FALSE)

\* Series.quantile(k/4), linear interpolation between the order statistics.
Quantile(sorted, k) ==
    LET n == Len(sorted)
        pos == k * (n - 1)
        lo == pos \div 4 + 1
        hi == Min(lo + 1, n)
    IN  sorted[lo] + ((pos % 4) * (sorted[hi] - sorted[lo])) \div 4

\* pd.qcut(x, q=4, labels=[...], duplicates='drop'): the edges are the
\* quartiles of the non-missing values (all NaN when there is none), cut with
\* include_lowest=True.
Qcut(x, labels) ==
    LET v == Sort(DropNa(x))
        bins == [k \in 1..5 |-> IF v = <<>> THEN NaN ELSE Quantile(v, k - 1)]
    IN  BinsToCuts(x, bins, labels, TRUE)


-----------------------------------------------------------------------------
(* The input tables: titanic_data.csv as read at line 10.                  *)

Sexes == {"female", "male"}
Classes == {1, 2, 3}
AgeVals ==
    {NaN, Years(0), Years(12), Years(13), Years(50), Years(100), Years(101)}
FareVals == {NaN, Pounds(0), Pounds(8), Pounds(16)}
Ports == {NA, "C", "Q"}
SibSpVals == {0, 8}
ParchVals == {0, 2}

\* The passenger listed at position i when nothing else is chosen for a
\* column: names and fares differ from row to row.
Roster(i) ==
    [Name |-> i,
     Sex |-> IF i % 2 = 1 THEN "male" ELSE "female",
     Age |-> Years(20 + 9 * i),
     Pclass |-> IF i % 2 = 1 THEN 3 ELSE 1,
     SibSp |-> i % 2,
     Parch |-> i \div 3,
     Fare |-> Pounds(7 * i),
     Embarked |-> IF i % 2 = 1 THEN "S" ELSE "C",
     Survived |-> IF i % 2 = 1 THEN 0 ELSE 1]

\* Tables of n rows that vary sex and outcome over the roster.
SexTables(n) ==
    {[i \in 1..n |-> [Roster(i) EXCEPT !.Sex = c[i][1], !.Survived = c[i][2]]] :
        c \in [1..n -> Sexes \X {0, 1}]}

\* Tables of n rows that vary class and outcome.
ClassTables(n) ==
    {[i \in 1..n |-> [Roster(i) EXCEPT !.Pclass = c[i][1], !.Survived = c[i][2]]] :
        c \in [1..n -> Classes \X {0, 1}]}

\* Tables of n rows that vary the age, missing ages included.
AgeTables(n) ==
    {[i \in 1..n |-> [Roster(i) EXCEPT !.Age = c[i]]] : c \in [1..n -> AgeVals]}

\* Tables of n rows that vary the fare, missing fares included.
FareTables(n) ==
    {[i \in 1..n |-> [Roster(i) EXCEPT !.Fare = c[i]]] : c \in [1..n -> FareVals]}

\* Tables of n rows that vary the port, missing ports included.
PortTables(n) ==
    {[i \in 1..n |-> [Roster(i) EXCEPT !.Embarked = c[i]]] : c \in [1..n -> Ports]}

\* Tables of n rows that vary the two family counts.
KinTables(n) ==
    {[i \in 1..n |-> [Roster(i) EXCEPT !.SibSp = c[i][1], !.Parch = c[i][2]]] :
        c \in [1..n -> SibSpVals \X ParchVals]}

Tables ==
    UNION {SexTables(n) \cup ClassTables(n) \cup AgeTables(n) \cup FareTables(n)
             \cup PortTables(n) \cup KinTables(n) : n \in 0..MaxRows}

-----------------------------------------------------------------------------
(* Load-time derivation, lines 13-47.                                      *)

\* line 17
WithSexNumeric(d) ==
    SetColumn(d, "Sex_Numeric",
              [i \in DOMAIN d |-> MapValue(Sex_Numeric, d[i].Sex)])

\* lines 20-21
FillAge(cow, d) ==
    LET median_age == Median(Column(d, "Age"))
    IN  SetColumn(d, "Age", FillNaInplace(cow, Column(d, "Age"), median_age, NaN))

\* lines 24-25
FillFare(cow, d) ==
    LET median_fare == Median(Column(d, "Fare"))
    IN  SetColumn(d, "Fare", FillNaInplace(cow, Column(d, "Fare"), median_fare, NaN))

\* line 28
FillEmbarked(cow, d) ==
    SetColumn(d, "Embarked", FillNaInplace(cow, Column(d, "Embarked"), "S", NA))

\* Line 31 without the passenger counted in.
WithFamilySizeOfOthers(d) ==
    SetColumn(d, "FamilySize", [i \in DOMAIN d |-> d[i].SibSp + d[i].Parch])

\* line 31
WithFamilySize(d) ==
    SetColumn(d, "FamilySize", [i \in DOMAIN d |-> d[i].SibSp + d[i].Parch + 1])

\* lines 34-37
WithAgeGroup(d) ==
    SetColumn(d, "AgeGroup", Cut(Column(d, "Age"), AgeBins, AgeLabels).values)

\* lines 40-42: the cut of the fares, which may raise.
FareGroup(d) == Qcut(Column(d, "Fare"), FareLabels)

\* The table as it is just before line 40.
BeforeFareGroup(cow, d) ==
    WithAgeGroup(WithFamilySize(FillEmbarked(cow, FillFare(cow, FillAge(cow,
        WithSexNumeric(d))))))

\* The table lines 13-42 leave when line 40 does not raise.
Enriched(cow, d) ==
    SetColumn(BeforeFareGroup(cow, d), "FareGroup",
              FareGroup(BeforeFareGroup(cow, d)).values)

\* Lines 45-47 with the factor 100 of line 47 left out.
SummaryAsFraction(d) ==
    [total_passengers |-> Len(d),
     total_survived |-> Sum(Column(d, "Survived")),
     survival_rate |-> Rat(Sum(Column(d, "Survived")), Len(d))]

\* lines 45-47
Summary(d) ==
    [total_passengers |-> Len(d),
     total_survived |-> Sum(Column(d, "Survived")),
     survival_rate |-> Rat(100 * Sum(Column(d, "Survived")), Len(d))]

-----------------------------------------------------------------------------
(* create_overview_dashboard, lines 51-213.                                *)

\* The sort order of df.groupby(col) over the values a column can hold.
KeyOrder ==
    [Sex |-> <<"Female", "Male", "female", "male">>, Pclass |-> <<1, 2, 3>>]

\* Lines 77-78 with the mean taken over the whole table instead of the group.
GroupStatsOverTable(d, col) ==
    LET rows(k) == SelectSeq(d, LAMBDA r : r[col] = k)
        keys == SelectSeq(KeyOrder[col], LAMBDA k : rows(k) # <<>>)
    IN  [j \in DOMAIN keys |->
            LET g == Column(rows(keys[j]), "Survived")
            IN  [key |-> keys[j], sum |-> Sum(g), count |-> Len(g),
                 mean |-> Rat(Sum(g), Len(d)),
                 survival_pct |-> Rat(100 * Sum(g), Len(d))]]

\* df.groupby(col)['Survived'].agg(['sum', 'count', 'mean']).reset_index()
\* with the survival_pct column, lines 77-78 and 98-99: one row for each
\* value that occurs in the column, in sorted order.
GroupStats(d, col) ==
    LET rows(k) == SelectSeq(d, LAMBDA r : r[col] = k)
        keys == SelectSeq(KeyOrder[col], LAMBDA k : rows(k) # <<>>)
    IN  [j \in DOMAIN keys |->
            LET g == Column(rows(keys[j]), "Survived")
            IN  [key |-> keys[j], sum |-> Sum(g), count |-> Len(g),
                 mean |-> Rat(Sum(g), Len(g)),
                 survival_pct |-> Rat(100 * Sum(g), Len(g))]]

\* go.Bar(x=<fixed labels>, y=stats['survival_pct'], text=...round(1)),
\* lines 82-91 and 103-112.
Bar(x, stats, marker_color) ==
    [type |-> "bar", x |-> x,
     y |-> [j \in DOMAIN stats |-> stats[j].survival_pct],
     marker_color |-> marker_color,
     text |-> [j \in DOMAIN stats |->
                  Round1(stats[j].survival_pct.num, stats[j].survival_pct.den)]]

\* The bars a Bar trace draws: x and y are paired by position, up to the
\* shorter of the two.
Bars(trace) ==
    [j \in 1..Min(Len(trace.x), Len(trace.y)) |->
        [label |-> trace.x[j], value |-> trace.y[j]]]

\* df[df['Survived'] == v][col], lines 119-120 and 153-154.
Where(d, v, col) == Column(SelectSeq(d, LAMBDA r : r.Survived = v), col)

\* The figure of lines 58-213 over the two tables of group statistics.
DashboardFigure(gender_stats, class_stats, d, s) ==
    [type |-> "figure",
     data |->
        <<Bar(<<"Female", "Male">>, gender_stats, <<"#4ECDC4", "#FF6B6B">>),
          Bar(<<"1st Class", "2nd Class", "3rd Class">>, class_stats,
              <<"#95E1D3", "#F38181", "#AA96DA">>),
          [type |-> "histogram", x |-> Where(d, 1, "Age"), name |-> "Survived",
           marker_color |-> "#4ECDC4", nbinsx |-> 25],
          [type |-> "histogram", x |-> Where(d, 0, "Age"),
           name |-> "Did Not Survive", marker_color |-> "#FF6B6B", nbinsx |-> 25],
          [type |-> "box", y |-> Where(d, 1, "Fare"), name |-> "Survived",
           marker_color |-> "#4ECDC4"],
          [type |-> "box", y |-> Where(d, 0, "Fare"), name |-> "Did Not Survive",
           marker_color |-> "#FF6B6B"]>>,
     title |->
        [survived |-> s.total_survived, passengers |-> s.total_passengers,
         rate |-> Round1(s.survival_rate.num, s.survival_rate.den)]]

\* Lines 98-99 with the rate of each of the classes 1, 2, 3 computed as
\* sum / count by hand: the division raises for a class nobody travels in.
create_overview_dashboard_each_class(d, s) ==
    IF \E k \in Classes : \A i \in DOMAIN d : d[i].Pclass # k
    THEN [type |-> "error", raised |-> "ZeroDivisionError"]
    ELSE DashboardFigure(GroupStats(d, "Sex"), GroupStats(d, "Pclass"), d, s)

create_overview_dashboard(d, s) ==
    DashboardFigure(GroupStats(d, "Sex"), GroupStats(d, "Pclass"), d, s)

-----------------------------------------------------------------------------
(* create_interactive_scatter, lines 216-290.                              *)

OutcomeMap == [k \in {0, 1} |-> IF k = 0 THEN "Did Not Survive" ELSE "Survived"]
GenderMap == [female |-> "Female", male |-> "Male"]
ClassMap == [k \in {1, 2, 3} |-> <<"1st Class", "2nd Class", "3rd Class">>[k]]
color_discrete_map == [p \in {"Did Not Survive", "Survived"} |->
                          IF p = "Survived" THEN "#4ECDC4" ELSE "#FF6B6B"]
\* The first symbols of plotly express' default symbol sequence.
symbol_sequence == <<"circle", "diamond", "square", "x", "cross">>

\* lines 223-236: the copy of df with the three label columns.
ScatterDf(d) ==
    LET o == SetColumn(d, "Outcome",
                 [i \in DOMAIN d |-> MapValue(OutcomeMap, d[i].Survived)])
        g == SetColumn(o, "Gender",
                 [i \in DOMAIN d |-> MapValue(GenderMap, d[i].Sex)])
    IN  SetColumn(g, "Class",
            [i \in DOMAIN d |-> MapValue(ClassMap, d[i].Pclass)])

\* Line 223 with the copy left out and the gender labels written over Sex:
\* the table the global df would then hold after a call.
EnrichedAfterScatterAliased(d) ==
    SetColumn(d, "Sex", [i \in DOMAIN d |-> MapValue(GenderMap, d[i].Sex)])

\* The global df after a call of create_interactive_scatter: line 223 takes a
\* copy, and lines 224-236 assign to the copy only.
EnrichedAfterScatter(d) == d

\* Lines 239-269 over a table from which the rows with a missing value were
\* dropped first.
PxScatterDropNa(sd) ==
    LET kept == SelectSeq(sd, LAMBDA r : r.Age # NaN /\ r.Fare # NaN)
        pair(r) == <<r.Outcome, r.Gender>>
        pairs == Unique([i \in DOMAIN kept |-> pair(kept[i])])
        genders == Unique([i \in DOMAIN kept |-> kept[i].Gender])
        symbol(g) == symbol_sequence[CHOOSE j \in DOMAIN genders : genders[j] = g]
        point(r) == [x |-> r.Age, y |-> r.Fare, size |-> r.FamilySize,
                     Name |-> r.Name, Class |-> r.Class, Embarked |-> r.Embarked]
        rows(p) == SelectSeq(kept, LAMBDA r : pair(r) = p)
    IN  [j \in DOMAIN pairs |->
            [type |-> "scatter", name |-> pairs[j],
             marker_color |-> color_discrete_map[pairs[j][1]],
             marker_symbol |-> symbol(pairs[j][2]),
             points |-> [i \in DOMAIN rows(pairs[j]) |-> point(rows(pairs[j])[i])]]]

\* px.scatter(scatter_df, x='Age', y='Fare', color='Outcome', symbol='Gender',
\* size='FamilySize', hover_data=...), lines 239-269: one trace for each
\* (Outcome, Gender) pair that occurs, in order of first occurrence, holding
\* the rows of that pair; the colour comes from color_discrete_map and the
\* symbols are dealt to the Gender values in order of first occurrence.
PxScatter(sd) ==
    LET pair(r) == <<r.Outcome, r.Gender>>
        pairs == Unique([i \in DOMAIN sd |-> pair(sd[i])])
        genders == Unique([i \in DOMAIN sd |-> sd[i].Gender])
        symbol(g) == symbol_sequence[CHOOSE j \in DOMAIN genders : genders[j] = g]
        point(r) == [x |-> r.Age, y |-> r.Fare, size |-> r.FamilySize,
                     Name |-> r.Name, Class |-> r.Class, Embarked |-> r.Embarked]
        rows(p) == SelectSeq(sd, LAMBDA r : pair(r) = p)
    IN  [j \in DOMAIN pairs |->
            [type |-> "scatter", name |-> pairs[j],
             marker_color |-> color_discrete_map[pairs[j][1]],
             marker_symbol |-> symbol(pairs[j][2]),
             points |-> [i \in DOMAIN rows(pairs[j]) |-> point(rows(pairs[j])[i])]]]

create_interactive_scatter(d) == [type |-> "figure", data |-> PxScatter(ScatterDf(d))]

NoSummary == [undefined |-> TRUE]
NoFigure == [type |-> "none"]

VARIABLES
    pc,             \* "import": line 10 done; "serving": the module loaded;
                    \* "failed": the import raised
    copy_on_write,  \* whether pandas runs with copy-on-write
    df_raw,         \* line 10
    df,             \* line 13, the working table
    summary,        \* lines 45-47
    dashboard,      \* the figure create_overview_dashboard returned last
    scatter,        \* the figure create_interactive_scatter returned last
    overview_plot,  \* line 363, the Plot the click handler fills
    scatter_plot    \* line 378

vars ==
    <<pc, copy_on_write, df_raw, df, summary, dashboard, scatter, overview_plot,
      scatter_plot>>

Init ==
    /\ pc = "import"
    /\ copy_on_write \in BOOLEAN
    /\ df_raw \in Tables
    /\ df = <<>>
    /\ summary = NoSummary
    /\ dashboard = NoFigure
    /\ scatter = NoFigure
    /\ overview_plot = NoFigure
    /\ scatter_plot = NoFigure

\* Lines 13-47 run once, top to bottom, when the module is imported.  The
\* ValueError of line 40 ends the import: FareGroup and the summary are then
\* never assigned.
Derive ==
    /\ pc = "import"
    /\ IF FareGroup(BeforeFareGroup(copy_on_write, df_raw)).raised
       THEN /\ pc' = "failed"
            /\ df' = BeforeFareGroup(copy_on_write, df_raw)
            /\ summary' = summary
       ELSE /\ pc' = "serving"
            /\ df' = Enriched(copy_on_write, df_raw)
            /\ summary' = Summary(Enriched(copy_on_write, df_raw))
    /\ UNCHANGED <<copy_on_write, df_raw, dashboard, scatter, overview_plot,
                   scatter_plot>>

\* A call of create_overview_dashboard (lines 51-213): it reads df and the
\* summary and returns the figure.
CallOverviewDashboard ==
    /\ pc = "serving"
    /\ dashboard' = create_overview_dashboard(df, summary)
    /\ UNCHANGED <<pc, copy_on_write, df_raw, df, summary, scatter, overview_plot,
                   scatter_plot>>

\* A call of create_interactive_scatter (lines 216-290).
CallInteractiveScatter ==
    /\ pc = "serving"
    /\ scatter' = create_interactive_scatter(df)
    /\ df' = EnrichedAfterScatter(df)
    /\ UNCHANGED <<pc, copy_on_write, df_raw, summary, dashboard, overview_plot,
                   scatter_plot>>

\* The click handler load_visualizations (lines 392-401): both calls in
\* order, the two figures go to the two Plot components.
LoadVisualizations ==
    /\ pc = "serving"
    /\ LET fig1 == create_overview_dashboard(df, summary)
           fig2 == create_interactive_scatter(df)
       IN  /\ dashboard' = fig1
           /\ scatter' = fig2
           /\ overview_plot' = fig1
           /\ scatter_plot' = fig2
    /\ df' = EnrichedAfterScatter(df)
    /\ UNCHANGED <<pc, copy_on_write, df_raw, summary>>

Next ==
    \/ Derive
    \/ CallOverviewDashboard
    \/ CallInteractiveScatter
    \/ LoadVisualizations

Spec == Init /\ [][Next]_vars

-----------------------------------------------------------------------------
(* Properties.                                                             *)

Rows == DOMAIN df

\* The survival rate, in percent, of the rows of df that t selects.
RateOf(t(_)) ==
    Rat(100 * Cardinality({i \in Rows : t(df[i]) /\ df[i].Survived = 1}),
        Cardinality({i \in Rows : t(df[i])}))

\* C1: once the derivation has run, every row has an Age, a Fare and an
\* Embarked that is not missing: a missing age is the median of the ages
\* given, a missing fare the median fare, a missing port 'S'.
C1_NoMissingAfterDerivation ==
    pc = "serving" =>
        \A i \in Rows :
            /\ df[i].Age # NaN /\ df[i].Fare # NaN /\ df[i].Embarked # NA
            /\ df_raw[i].Age = NaN => df[i].Age = Median(Column(df_raw, "Age"))
            /\ df_raw[i].Fare = NaN => df[i].Fare = Median(Column(df_raw, "Fare"))
            /\ df_raw[i].Embarked = NA => df[i].Embarked = "S"

\* The label of the bin among (0,12], (12,18], (18,35], (35,50], (50,100]
\* that holds the age a.
BinLabelOf(a) ==
    IF Years(0) < a /\ a <= Years(12) THEN "Child (0-12)"
    ELSE IF Years(12) < a /\ a <= Years(18) THEN "Teen (13-18)"
    ELSE IF Years(18) < a /\ a <= Years(35) THEN "Adult (19-35)"
    ELSE IF Years(35) < a /\ a <= Years(50) THEN "Middle Age (36-50)"
    ELSE IF Years(50) < a /\ a <= Years(100) THEN "Senior (50+)"
    ELSE "no bin"

\* C2: AgeGroup is a total function of Age: every row of the enriched table
\* that has an age carries one of the five labels, the label of the bin that
\* holds its Age, a boundary age falling into the lower bin.  (A row whose
\* Age is still missing is the matter of C1.)
C2_AgeGroupTotal ==
    pc = "serving" =>
        \A i \in Rows :
            df[i].Age # NaN =>
                /\ df[i].AgeGroup \in Range(AgeLabels)
                /\ df[i].AgeGroup = BinLabelOf(df[i].Age)

AllFaresIdentical ==
    /\ Len(df_raw) >= 1
    /\ \A i \in DOMAIN df_raw :
          df_raw[i].Fare # NaN /\ df_raw[i].Fare = df_raw[1].Fare

\* C3: when every fare of the input is the same, the derivation completes and
\* FareGroup holds a single category.
C3_IdenticalFaresDegrade ==
    (pc # "import" /\ AllFaresIdentical) =>
        /\ pc = "serving"
        /\ Cardinality({df[i].FareGroup : i \in Rows}) = 1

AllSameClass == Len(df) >= 1 /\ \A i \in Rows : df[i].Pclass = df[1].Pclass

\* C4: when all passengers are of one class, the dashboard is built without
\* an error: Panel 2 draws a single bar, whose value is the survival rate of
\* that class, and the other panels and the title are there.
C4_OneClassOneBar ==
    (pc = "serving" /\ dashboard # NoFigure /\ AllSameClass) =>
        /\ dashboard.type = "figure"
        /\ Len(Bars(dashboard.data[2])) = 1
        /\ Bars(dashboard.data[2])[1].value
             = RateOf(LAMBDA r : r.Pclass = df[1].Pclass)
        /\ Len(Bars(dashboard.data[1])) >= 1
        /\ Len(dashboard.data) = 6
        /\ Len(dashboard.data[3].x) + Len(dashboard.data[4].x) = Len(df)
        /\ Len(dashboard.data[5].y) + Len(dashboard.data[6].y) = Len(df)
        /\ dashboard.title.passengers = Len(df)

C4_Witness ==
    /\ pc = "serving" /\ dashboard # NoFigure /\ AllSameClass
    /\ Len(df) >= 2
    /\ df[1].Pclass = 3
    /\ Len(Bars(dashboard.data[2])) = 1

SexOfLabel == [Female |-> "female", Male |-> "male"]
ClassOfLabel ==
    [l \in {"1st Class", "2nd Class", "3rd Class"} |->
        IF l = "1st Class" THEN 1 ELSE IF l = "2nd Class" THEN 2 ELSE 3]

\* C5: each bar of Panel 1 and Panel 2 shows the survival rate of the
\* category its label names, and there is one bar for each category that
\* occurs.
C5_BarsMatchLabels ==
    (pc = "serving" /\ dashboard # NoFigure) =>
        /\ \A j \in DOMAIN Bars(dashboard.data[1]) :
              LET b == Bars(dashboard.data[1])[j]
              IN  /\ \E i \in Rows : df[i].Sex = SexOfLabel[b.label]
                  /\ b.value = RateOf(LAMBDA r : r.Sex = SexOfLabel[b.label])
        /\ Len(Bars(dashboard.data[1])) = Cardinality({df[i].Sex : i \in Rows})
        /\ \A j \in DOMAIN Bars(dashboard.data[2]) :
              LET b == Bars(dashboard.data[2])[j]
              IN  /\ \E i \in Rows : df[i].Pclass = ClassOfLabel[b.label]
                  /\ b.value = RateOf(LAMBDA r : r.Pclass = ClassOfLabel[b.label])
        /\ Len(Bars(dashboard.data[2])) = Cardinality({df[i].Pclass : i \in Rows})

\* The points of a scatter figure: <<trace, position in the trace>>.
Points(fig) ==
    UNION {{<<t, j>> : j \in DOMAIN fig.data[t].points} : t \in DOMAIN fig.data}

\* C6: the scatter holds exactly one point for each row of the enriched
\* table, placed at the row's (Age, Fare) in the colour of its outcome, and
\* every point has one of two colours and one of two symbols.
C6_OnePointPerRow ==
    (pc = "serving" /\ scatter # NoFigure) =>
        /\ scatter.type = "figure"
        /\ Cardinality(Points(scatter)) = Len(df)
        /\ \A i \in Rows :
              Cardinality({p \in Points(scatter) :
                  LET tr == scatter.data[p[1]]
                      pt == tr.points[p[2]]
                  IN  /\ pt.Name = df[i].Name
                      /\ pt.x = df[i].Age /\ pt.y = df[i].Fare
                      /\ pt.size = df[i].FamilySize
                      /\ tr.marker_color
                           = IF df[i].Survived = 1 THEN "#4ECDC4" ELSE "#FF6B6B"}) = 1
        /\ \A t \in DOMAIN scatter.data :
              /\ scatter.data[t].marker_color \in {"#4ECDC4", "#FF6B6B"}
              /\ scatter.data[t].marker_symbol \in {"circle", "diamond"}
        /\ \A t, u \in DOMAIN scatter.data :
              (scatter.data[t].marker_symbol = scatter.data[u].marker_symbol)
                  <=> (scatter.data[t].name[2] = scatter.data[u].name[2])

C6_Witness ==
    /\ pc = "serving" /\ scatter # NoFigure
    /\ Len(df) >= 3
    /\ Len(scatter.data) >= 3
    /\ \E t \in DOMAIN scatter.data : Len(scatter.data[t].points) >= 1

\* C7: the chart operations leave the shared state alone: while the app
\* serves, df is the table the derivation produced from the input and the
\* summary is the one computed from it, whatever was called since.
C7_SharedStateUntouched ==
    pc = "serving" =>
        /\ df = Enriched(copy_on_write, df_raw)
        /\ summary = Summary(Enriched(copy_on_write, df_raw))

C7_Witness ==
    /\ pc = "serving"
    /\ Len(df) >= 2
    /\ dashboard # NoFigure /\ scatter # NoFigure
    /\ overview_plot # NoFigure /\ scatter_plot # NoFigure

\* C8: a call of either chart operation returns the figure its earlier calls
\* returned, however many calls of either came before.
C8_Idempotent ==
    [][/\ dashboard # NoFigure => dashboard' = dashboard
       /\ scatter # NoFigure => scatter' = scatter
       /\ overview_plot # NoFigure => overview_plot' = overview_plot
       /\ scatter_plot # NoFigure => scatter_plot' = scatter_plot]_vars

C8_Witness ==
    /\ pc = "serving"
    /\ Len(df) >= 2
    /\ dashboard # NoFigure /\ scatter # NoFigure
    /\ overview_plot = dashboard /\ scatter_plot = scatter

\* C9: the summary counts the rows and the survivors of the input table and
\* survival_rate x total = 100 x survived_total.
C9_SummaryIdentity ==
    pc = "serving" =>
        /\ summary.total_passengers = Len(df_raw)
        /\ summary.total_survived
             = Cardinality({i \in DOMAIN df_raw : df_raw[i].Survived = 1})
        /\ summary.survival_rate.num * summary.total_passengers
             = 100 * summary.total_survived * summary.survival_rate.den

C9_Witness ==
    /\ pc = "serving"
    /\ summary.total_passengers = 3
    /\ summary.total_survived = 1

\* The keys of column col that occur in df, in sorted order.
KeysPresent(col) ==
    SelectSeq(KeyOrder[col], LAMBDA k : \E i \in Rows : df[i][col] = k)

RatAdd(p, q) == Rat(p.num * q.den + q.num * p.den, p.den * q.den)

RatTimes(p, k) == Rat(p.num * k, p.den)

RECURSIVE RatSum(_)
RatSum(s) == IF s = <<>> THEN Rat(0, 1) ELSE RatAdd(Head(s), RatSum(Tail(s)))

\* The percentages of a panel, each weighted by the size of its group.
Weighted(trace, col) ==
    RatSum([j \in DOMAIN trace.y |->
        RatTimes(trace.y[j],
                 Cardinality({i \in Rows : df[i][col] = KeysPresent(col)[j]}))])

\* C10: the percentages of Panel 1, weighted by the sizes of their groups and
\* divided by the total, give the overall survival rate, and so do the
\* percentages of Panel 2.
C10_WeightedAverage ==
    (pc = "serving" /\ dashboard # NoFigure) =>
        /\ dashboard.type = "figure"
        /\ Len(dashboard.data[1].y) = Len(KeysPresent("Sex"))
        /\ Len(dashboard.data[2].y) = Len(KeysPresent("Pclass"))
        /\ Weighted(dashboard.data[1], "Sex")
             = RatTimes(summary.survival_rate, summary.total_passengers)
        /\ Weighted(dashboard.data[2], "Pclass")
             = RatTimes(summary.survival_rate, summary.total_passengers)

C10_Witness ==
    /\ pc = "serving" /\ dashboard # NoFigure
    /\ Len(dashboard.data[1].y) = 2
    /\ dashboard.data[1].y[1] # dashboard.data[1].y[2]
    /\ Len(df) >= 3
    /\ summary.total_survived >= 1

\* C11: every row of the enriched table has FamilySize = SibSp + Parch + 1
\* of the row as it was read, and FamilySize is at least 1.
C11_FamilySize ==
    pc = "serving" =>
        \A i \in Rows :
            /\ df[i].FamilySize = df_raw[i].SibSp + df_raw[i].Parch + 1
            /\ df[i].FamilySize = df[i].SibSp + df[i].Parch + 1
            /\ df[i].FamilySize >= 1

C11_Witness ==
    /\ pc = "serving"
    /\ \E i \in Rows : df[i].SibSp = 0 /\ df[i].Parch = 0 /\ df[i].FamilySize = 1
    /\ \E i \in Rows : df[i].SibSp = 8 /\ df[i].Parch = 2 /\ df[i].FamilySize = 11

=============================================================================
